---- MODULE Spec2Model ----
(***************************************************************************)
(* A model of the synchronized key-value store of this repository:         *)
(*   Database            the in-memory dict            (src/Database.py)    *)
(*   FileDatabase        reload / save of the pickle   (src/file_Database.py*)
(*                       and src/winapi.py)                                 *)
(*   SynchronizedDatabase, bounded variant: Semaphore(max_readers) plus a   *)
(*                       writer Lock               (src/sync_Database.py)   *)
(*   SynchronizedDatabase, event/mutex variant: reader_count, a mutex and   *)
(*                       an auto-reset event           (src/winapi.py)      *)
(* Every actor (a thread, or a process with its own copy of self.DB) runs   *)
(* get_value / set_value / delete_value calls one statement at a time.      *)
(***************************************************************************)
EXTENDS Integers, Sequences, FiniteSets, TLC

\* ------------------------------------------------------------------ bounds
NumActors == 3
MaxCalls == 3
MaxDataCalls == 2
MaxReaders == 2

Actors == 1..NumActors
Keys == {1, 2}
Vals == {10, 20}
\* An argument that is not hashable (a list, say): self.DB[key] raises TypeError.
UnhashableKeys == {0}
KeyInputs == Keys \cup UnhashableKeys

VARIABLES
    variant,       \* "bounded" (sync_Database.py) or "event" (winapi.py)
    mode,          \* "thread": one self.DB shared; "process": one self.DB per actor
    db_arg,        \* the mapping passed to the constructor
    absent,        \* whether database.pickle was absent when the store was constructed
    file,          \* database.pickle: [exists, bytes]
    DB,            \* self.DB of each actor's address space (a dict: sequence of <<k, v>>)
    pc,            \* each actor's position in its current call
    op,            \* the call in progress: [name, key, val]
    res,           \* the call's outcome so far: [kind, v]
    calls,         \* calls the workload has yet to issue; negative: a workload without end
    semaphore,     \* bounded: free units of self.semaphore
    write_lock,    \* bounded: owner of self.write_lock, 0 when unlocked
    held,          \* bounded: semaphore units each actor has acquired and not released
    reader_count,  \* event: self.reader_count
    write_mutex,   \* event: owner of self.write_mutex, 0 when unowned
    read_event,    \* event: TRUE when self.read_event is signalled
    counted,       \* event: whether the actor's increment of reader_count is outstanding
    event_taker,   \* event: who consumed read_event: 0 (signalled), -1 (readers) or a writer
    load_ok,       \* history: whether the reload of the actor's current call succeeded
    last_exit,     \* history: how the call that ended last ended: "return" or "raise"
    committed,     \* history: per key, the effect of the last mutating call that returned
    entry_file,    \* history: the file when the writer inside acquired the gate, else NoFile
    quiet,         \* history: no set or delete of the key of the actor's get was in
                   \* progress at any time since that get was called
    begun          \* history: which of set and delete have been called with a hashable key

conf == <<variant, mode, db_arg, absent>>
gateA == <<semaphore, write_lock, held>>
gateB == <<reader_count, write_mutex, read_event, counted, event_taker>>
vars == <<conf, file, DB, pc, op, res, calls, gateA, gateB,
          load_ok, last_exit, committed, entry_file, quiet, begun>>

\* ------------------------------------------------------------ Database (dict)
EmptyDict == << >>

RECURSIVE DictIndex(_, _, _)
\* position of key k in dict d at or after i, 0 when absent
DictIndex(d, k, i) ==
    IF i > Len(d) THEN 0
    ELSE IF d[i][1] = k THEN i
    ELSE DictIndex(d, k, i + 1)

DictHas(d, k) == DictIndex(d, k, 1) # 0

\* self.DB[key] = val : an existing key keeps its place, a new key is appended
DictSet(d, k, v) ==
    IF DictHas(d, k)
    THEN [d EXCEPT ![DictIndex(d, k, 1)] = <<k, v>>]
    ELSE Append(d, <<k, v>>)

\* del self.DB[key]
DictDel(d, k) ==
    LET i == DictIndex(d, k, 1)
    IN  SubSeq(d, 1, i - 1) \o SubSeq(d, i + 1, Len(d))

Result(kind, v) == [kind |-> kind, v |-> v]
NoResult == Result("none", 0)
\* the "doesn't exist" return value of Database.get_value
NotFound == Result("notfound", 0)
Raised == Result("raised", 0)
RetTrue == Result("bool", 1)
RetFalse == Result("bool", 0)

\* Database.get_value: the value, the sentinel on KeyError, TypeError propagates
DictGet(d, k) ==
    IF k \in UnhashableKeys THEN Raised
    ELSE IF DictHas(d, k) THEN Result("value", d[DictIndex(d, k, 1)][2])
    ELSE NotFound

\* --------------------------------------------------------------- pickle
RECURSIVE Flatten(_)
Flatten(d) ==
    IF d = << >> THEN << >>
    ELSE <<d[1][1], d[1][2]>> \o Flatten(Tail(d))

\* pickle.dumps(self.DB): the item count, then the items in dict order
PickleDumps(d) == <<Len(d)>> \o Flatten(d)

\* whether pickle.loads(b) succeeds: a complete pickle, anything after it ignored
PickleLoadable(b) == Len(b) >= 1 /\ b[1] >= 0 /\ Len(b) >= 1 + 2 * b[1]

RECURSIVE Unflatten(_, _, _)
Unflatten(b, i, n) ==
    IF n = 0 THEN EmptyDict
    ELSE <<<<b[i], b[i + 1]>>>> \o Unflatten(b, i + 2, n - 1)

\* pickle.loads(b), for a loadable b
PickleLoads(b) == Unflatten(b, 2, b[1])

NoFile == [exists |-> FALSE, bytes |-> << >>]
FileOf(b) == [exists |-> TRUE, bytes |-> b]

\* ------------------------------------------------------------ FileDatabase
\* (mutant) a failed reload empties self.DB
LoadBoundedClears(f, d, ok) ==
    IF ok /\ f.exists /\ PickleLoadable(f.bytes) THEN PickleLoads(f.bytes) ELSE EmptyDict

\* (mutant) an absent file loads as the empty mapping
LoadBoundedAbsentEmpty(f, d, ok) ==
    IF ~f.exists THEN EmptyDict
    ELSE IF ok /\ PickleLoadable(f.bytes) THEN PickleLoads(f.bytes) ELSE d

\* file_Database.load_from_file: open(..., 'rb') and pickle.load; on any exception
\* self.DB stays as it was.  ok: whether the environment lets the read succeed.
LoadBounded(f, d, ok) ==
    IF ok /\ f.exists /\ PickleLoadable(f.bytes) THEN PickleLoads(f.bytes) ELSE d

\* winapi.load_from_file: CreateFile(OPEN_EXISTING, no sharing); an empty file is {}.
LoadEvent(f, d, ok) ==
    IF ~(ok /\ f.exists) THEN d
    ELSE IF Len(f.bytes) = 0 THEN EmptyDict
    ELSE IF PickleLoadable(f.bytes) THEN PickleLoads(f.bytes)
    ELSE d

\* file_Database.save_to_file: open(..., 'wb') truncates or creates, then pickle.dump
SaveBounded(f, d, ok) ==
    IF ok THEN FileOf(PickleDumps(d)) ELSE f

\* winapi.save_to_file: CreateFile(OPEN_EXISTING) and WriteFile at offset 0: the
\* file is not truncated, bytes beyond the new pickle stay.
SaveEvent(f, d, ok) ==
    IF ~(ok /\ f.exists) THEN f
    ELSE LET b == PickleDumps(d)
         IN  FileOf(b \o SubSeq(f.bytes, Len(b) + 1, Len(f.bytes)))

\* (mutant) the call works on self.DB as it is, without the reload
LoadNoReload(f, d, ok) == d

Load(f, d, ok) == IF variant = "bounded" THEN LoadBounded(f, d, ok) ELSE LoadEvent(f, d, ok)
Save(f, d, ok) == IF variant = "bounded" THEN SaveBounded(f, d, ok) ELSE SaveEvent(f, d, ok)

\* whether load_from_file replaces self.DB (no exception on the way)
Readable(f, ok) ==
    /\ ok /\ f.exists
    /\ IF variant = "bounded" THEN PickleLoadable(f.bytes)
       ELSE Len(f.bytes) = 0 \/ PickleLoadable(f.bytes)

\* the mapping the snapshot holds: the pickle at the head of the file; an absent or
\* empty file holds the empty mapping
Snapshot(f) ==
    IF f.exists /\ PickleLoadable(f.bytes) THEN PickleLoads(f.bytes) ELSE EmptyDict

\* assignment to self.DB: threads share the object, a process has its own
SetDB(a, d) == IF mode = "thread" THEN [b \in Actors |-> d] ELSE [DB EXCEPT ![a] = d]

\* ------------------------------------------------------------------ calls
NoOp == [name |-> "none", key |-> 0, val |-> 0]
IsWrite(name) == name \in {"set", "del"}

\* (mutant) no finally: an exception leaves the call without the release
ExitPcNoFinally(name, r) ==
    IF r = Raised THEN "idle" ELSE IF name = "get" THEN "r_rel" ELSE "w_rel"

\* try: return super()...  finally: release  -- the release follows every outcome
ExitPc(name, r) == IF name = "get" THEN "r_rel" ELSE "w_rel"

\* the effect on its key that a returned set or delete leaves behind
Commit(o, r) ==
    IF o.key \in Keys /\ IsWrite(o.name) /\ r.kind = "bool"
    THEN [committed EXCEPT ![o.key] = IF o.name = "set" THEN Result("set", o.val)
                                       ELSE Result("deleted", 0)]
    ELSE committed

\* the call returns, or its exception reaches the caller
Return(a) ==
    /\ pc' = [pc EXCEPT ![a] = "idle"]
    /\ committed' = Commit(op[a], res[a])
    /\ last_exit' = IF res[a] = Raised THEN "raise" ELSE "return"
    /\ op' = [op EXCEPT ![a] = NoOp]
    /\ res' = [res EXCEPT ![a] = NoResult]
    /\ load_ok' = [load_ok EXCEPT ![a] = FALSE]
    /\ quiet' = [quiet EXCEPT ![a] = FALSE]
    /\ begun' = begun

\* whether actor b is in a set or delete of key k
Mutating(b, k) == pc[b] # "idle" /\ IsWrite(op[b].name) /\ op[b].key = k

Begin(a, name, k, v) ==
    /\ pc[a] = "idle"
    /\ calls # 0
    /\ calls' = IF calls > 0 THEN calls - 1 ELSE calls
    /\ op' = [op EXCEPT ![a] = [name |-> name, key |-> k, val |-> v]]
    /\ pc' = [pc EXCEPT ![a] = IF name = "get" THEN "r_acq" ELSE "w_acq"]
    /\ UNCHANGED <<conf, file, DB, res, gateA, gateB, load_ok, last_exit, committed,
                   entry_file>>
    /\ quiet' = [b \in Actors |->
                   IF b = a
                   THEN name = "get" /\ \A c \in Actors \ {a} : ~Mutating(c, k)
                   ELSE quiet[b] /\ ~(IsWrite(name) /\ op[b].key = k)]
    /\ begun' = IF IsWrite(name) /\ k \in Keys THEN begun \cup {name} ELSE begun

get_value(a, k) == Begin(a, "get", k, 0)
set_value(a, k, v) == Begin(a, "set", k, v)
delete_value(a, k) == Begin(a, "del", k, 0)

\* FileDatabase.get_value / set_value / del_value, first statement: self.load_from_file()
load_from_file(a, ok) ==
    /\ pc[a] \in {"r_load", "w_load"}
    /\ DB' = SetDB(a, Load(file, DB[a], ok))
    /\ load_ok' = [load_ok EXCEPT ![a] = Readable(file, ok)]
    /\ pc' = [pc EXCEPT ![a] = IF pc[a] = "r_load" THEN "r_op" ELSE "w_op"]
    /\ UNCHANGED <<conf, file, op, res, calls, gateA, gateB, last_exit, committed,
                   entry_file, quiet, begun>>

\* Database.get_value
db_get(a) ==
    /\ pc[a] = "r_op"
    /\ res' = [res EXCEPT ![a] = DictGet(DB[a], op[a].key)]
    /\ pc' = [pc EXCEPT ![a] = ExitPc("get", DictGet(DB[a], op[a].key))]
    /\ UNCHANGED <<conf, file, DB, op, calls, gateA, gateB, load_ok, last_exit,
                   committed, entry_file, quiet, begun>>

\* (mutant) the save follows a set whose assignment failed
db_set_saves_on_failure(a) ==
    /\ pc[a] = "w_op" /\ op[a].name = "set"
    /\ IF op[a].key \in UnhashableKeys
       THEN /\ res' = [res EXCEPT ![a] = RetFalse]
            /\ pc' = [pc EXCEPT ![a] = "w_save"]
            /\ DB' = DB
       ELSE /\ res' = [res EXCEPT ![a] = RetTrue]
            /\ pc' = [pc EXCEPT ![a] = "w_save"]
            /\ DB' = SetDB(a, DictSet(DB[a], op[a].key, op[a].val))
    /\ UNCHANGED <<conf, file, op, calls, gateA, gateB, load_ok, last_exit, committed,
                   entry_file, quiet, begun>>

\* (mutant) the assignment replaces the mapping by the one entry
db_set_replaces(a) ==
    /\ pc[a] = "w_op" /\ op[a].name = "set"
    /\ IF op[a].key \in UnhashableKeys
       THEN /\ res' = [res EXCEPT ![a] = RetFalse]
            /\ pc' = [pc EXCEPT ![a] = ExitPc("set", RetFalse)]
            /\ DB' = DB
       ELSE /\ res' = [res EXCEPT ![a] = RetTrue]
            /\ pc' = [pc EXCEPT ![a] = "w_save"]
            /\ DB' = SetDB(a, DictSet(EmptyDict, op[a].key, op[a].val))
    /\ UNCHANGED <<conf, file, op, calls, gateA, gateB, load_ok, last_exit, committed,
                   entry_file, quiet, begun>>

\* Database.set_value: an exception of the assignment is caught and gives False
db_set(a) ==
    /\ pc[a] = "w_op" /\ op[a].name = "set"
    /\ IF op[a].key \in UnhashableKeys
       THEN /\ res' = [res EXCEPT ![a] = RetFalse]
            /\ pc' = [pc EXCEPT ![a] = ExitPc("set", RetFalse)]
            /\ DB' = DB
       ELSE /\ res' = [res EXCEPT ![a] = RetTrue]
            /\ pc' = [pc EXCEPT ![a] = "w_save"]
            /\ DB' = SetDB(a, DictSet(DB[a], op[a].key, op[a].val))
    /\ UNCHANGED <<conf, file, op, calls, gateA, gateB, load_ok, last_exit, committed,
                   entry_file, quiet, begun>>

\* Database.del_value: True, False on KeyError, TypeError propagates
DelResult(d, k) ==
    IF k \in UnhashableKeys THEN Raised
    ELSE IF DictHas(d, k) THEN RetTrue
    ELSE RetFalse

\* (mutant) the save follows every delete that did not raise
db_del_always_saves(a) ==
    /\ pc[a] = "w_op" /\ op[a].name = "del"
    /\ res' = [res EXCEPT ![a] = DelResult(DB[a], op[a].key)]
    /\ IF DelResult(DB[a], op[a].key) # Raised
       THEN /\ pc' = [pc EXCEPT ![a] = "w_save"]
            /\ DB' = SetDB(a, DictDel(DB[a], op[a].key))
       ELSE /\ pc' = [pc EXCEPT ![a] = ExitPc("del", DelResult(DB[a], op[a].key))]
            /\ DB' = DB
    /\ UNCHANGED <<conf, file, op, calls, gateA, gateB, load_ok, last_exit, committed,
                   entry_file, quiet, begun>>

\* Database.del_value, then  if success: ...  of FileDatabase.del_value
db_del(a) ==
    /\ pc[a] = "w_op" /\ op[a].name = "del"
    /\ res' = [res EXCEPT ![a] = DelResult(DB[a], op[a].key)]
    /\ IF DelResult(DB[a], op[a].key) = RetTrue
       THEN /\ pc' = [pc EXCEPT ![a] = "w_save"]
            /\ DB' = SetDB(a, DictDel(DB[a], op[a].key))
       ELSE /\ pc' = [pc EXCEPT ![a] = ExitPc("del", DelResult(DB[a], op[a].key))]
            /\ DB' = DB
    /\ UNCHANGED <<conf, file, op, calls, gateA, gateB, load_ok, last_exit, committed,
                   entry_file, quiet, begun>>

\* FileDatabase.set_value / del_value: if success: self.save_to_file()
save_to_file(a, ok) ==
    /\ pc[a] = "w_save"
    /\ file' = Save(file, DB[a], ok)
    /\ pc' = [pc EXCEPT ![a] = ExitPc(op[a].name, res[a])]
    /\ UNCHANGED <<conf, DB, op, res, calls, gateA, gateB, load_ok, last_exit,
                   committed, entry_file, quiet, begun>>

\* ------------------------------------------- bounded variant (sync_Database.py)

\* ---------------------------------------- FileDatabase.del_value, as inherited
\* sync_Database.SynchronizedDatabase defines delete_value and does not override
\* del_value, so  store.del_value(key)  runs FileDatabase.del_value with no gate.
del_value(a, k) ==
    /\ variant = "bounded" /\ pc[a] = "idle"
    /\ calls # 0
    /\ calls' = IF calls > 0 THEN calls - 1 ELSE calls
    /\ op' = [op EXCEPT ![a] = [name |-> "del", key |-> k, val |-> 0]]
    /\ pc' = [pc EXCEPT ![a] = "d_load"]
    /\ quiet' = [b \in Actors |-> IF b = a THEN FALSE ELSE quiet[b] /\ op[b].key # k]
    /\ begun' = IF k \in Keys THEN begun \cup {"del"} ELSE begun
    /\ UNCHANGED <<conf, file, DB, res, gateA, gateB, load_ok, last_exit, committed,
                   entry_file>>

\* del_value: self.load_from_file()
del_value_load(a, ok) ==
    /\ pc[a] = "d_load"
    /\ DB' = SetDB(a, Load(file, DB[a], ok))
    /\ load_ok' = [load_ok EXCEPT ![a] = Readable(file, ok)]
    /\ pc' = [pc EXCEPT ![a] = "d_op"]
    /\ UNCHANGED <<conf, file, op, res, calls, gateA, gateB, last_exit, committed,
                   entry_file, quiet, begun>>

\* del_value: success = super().del_value(key);  if success: ...
del_value_del(a) ==
    /\ pc[a] = "d_op"
    /\ res' = [res EXCEPT ![a] = DelResult(DB[a], op[a].key)]
    /\ IF DelResult(DB[a], op[a].key) = RetTrue
       THEN /\ pc' = [pc EXCEPT ![a] = "d_save"]
            /\ DB' = SetDB(a, DictDel(DB[a], op[a].key))
       ELSE /\ pc' = [pc EXCEPT ![a] = "d_ret"]
            /\ DB' = DB
    /\ UNCHANGED <<conf, file, op, calls, gateA, gateB, load_ok, last_exit, committed,
                   entry_file, quiet, begun>>

\* del_value: self.save_to_file()
del_value_save(a, ok) ==
    /\ pc[a] = "d_save"
    /\ file' = Save(file, DB[a], ok)
    /\ pc' = [pc EXCEPT ![a] = "d_ret"]
    /\ UNCHANGED <<conf, DB, op, res, calls, gateA, gateB, load_ok, last_exit,
                   committed, entry_file, quiet, begun>>

\* del_value: return success, or the TypeError reaches the caller
del_value_return(a) ==
    /\ pc[a] = "d_ret"
    /\ Return(a)
    /\ UNCHANGED <<conf, file, DB, calls, gateA, gateB, entry_file>>

\* (mutant) the writer's loop stops one unit short
UnitsToDrainShort == MaxReaders - 1

\* the units acquire_write_lock collects before it returns
UnitsToDrain == MaxReaders

\* (mutant) the reader enters without waiting for a unit
acquire_read_lock_unguarded(a) ==
    /\ variant = "bounded" /\ pc[a] = "r_acq"
    /\ semaphore' = semaphore - 1
    /\ held' = [held EXCEPT ![a] = @ + 1]
    /\ pc' = [pc EXCEPT ![a] = "r_load"]
    /\ UNCHANGED <<conf, file, DB, op, res, calls, write_lock, gateB, load_ok,
                   last_exit, committed, entry_file, quiet, begun>>

\* (mutant) a reader does not take a unit while a writer holds write_lock
acquire_read_lock_behind_writer(a) ==
    /\ variant = "bounded" /\ pc[a] = "r_acq"
    /\ semaphore > 0 /\ write_lock = 0
    /\ semaphore' = semaphore - 1
    /\ held' = [held EXCEPT ![a] = @ + 1]
    /\ pc' = [pc EXCEPT ![a] = "r_load"]
    /\ UNCHANGED <<conf, file, DB, op, res, calls, write_lock, gateB, load_ok,
                   last_exit, committed, entry_file, quiet, begun>>

\* acquire_read_lock: self.semaphore.acquire()
acquire_read_lock_bounded(a) ==
    /\ variant = "bounded" /\ pc[a] = "r_acq"
    /\ semaphore > 0
    /\ semaphore' = semaphore - 1
    /\ held' = [held EXCEPT ![a] = @ + 1]
    /\ pc' = [pc EXCEPT ![a] = "r_load"]
    /\ UNCHANGED <<conf, file, DB, op, res, calls, write_lock, gateB, load_ok,
                   last_exit, committed, entry_file, quiet, begun>>

\* (mutant) the reader's release gives back two units
release_read_semaphore_bounded_double(a) ==
    /\ variant = "bounded" /\ pc[a] = "r_rel"
    /\ semaphore' = semaphore + 2
    /\ held' = [held EXCEPT ![a] = @ - 1]
    /\ Return(a)
    /\ UNCHANGED <<conf, file, DB, calls, write_lock, gateB, entry_file>>

\* release_read_semaphore: self.semaphore.release(); get_value returns
release_read_semaphore_bounded(a) ==
    /\ variant = "bounded" /\ pc[a] = "r_rel"
    /\ semaphore' = semaphore + 1
    /\ held' = [held EXCEPT ![a] = @ - 1]
    /\ Return(a)
    /\ UNCHANGED <<conf, file, DB, calls, write_lock, gateB, entry_file>>

\* acquire_write_lock: self.write_lock.acquire()
acquire_write_lock_lock(a) ==
    /\ variant = "bounded" /\ pc[a] = "w_acq"
    /\ write_lock = 0
    /\ write_lock' = a
    /\ pc' = [pc EXCEPT ![a] = "w_sem"]
    /\ UNCHANGED <<conf, file, DB, op, res, calls, semaphore, held, gateB, load_ok,
                   last_exit, committed, entry_file, quiet, begun>>

\* acquire_write_lock: one round of  for _ in range(self.max_readers): acquire()
acquire_write_lock_unit(a) ==
    /\ variant = "bounded" /\ pc[a] = "w_sem"
    /\ semaphore > 0
    /\ semaphore' = semaphore - 1
    /\ held' = [held EXCEPT ![a] = @ + 1]
    /\ IF held[a] + 1 >= UnitsToDrain
       THEN pc' = [pc EXCEPT ![a] = "w_load"] /\ entry_file' = file
       ELSE pc' = pc /\ entry_file' = entry_file
    /\ UNCHANGED <<conf, file, DB, op, res, calls, write_lock, gateB, load_ok,
                   last_exit, committed, quiet, begun>>

\* (mutant) release_write_lock gives back one unit only
release_write_lock_unit_once(a) ==
    /\ variant = "bounded" /\ pc[a] \in {"w_rel", "w_rel2"}
    /\ semaphore' = semaphore + 1
    /\ held' = [held EXCEPT ![a] = @ - 1]
    /\ pc' = [pc EXCEPT ![a] = "w_unlock"]
    /\ UNCHANGED <<conf, file, DB, op, res, calls, write_lock, gateB, load_ok,
                   last_exit, committed, entry_file, quiet, begun>>

\* release_write_lock: one round of  for _ in range(self.max_readers): release()
release_write_lock_unit(a) ==
    /\ variant = "bounded" /\ pc[a] \in {"w_rel", "w_rel2"}
    /\ semaphore' = semaphore + 1
    /\ held' = [held EXCEPT ![a] = @ - 1]
    /\ pc' = [pc EXCEPT ![a] = IF held[a] - 1 <= 0 THEN "w_unlock" ELSE "w_rel2"]
    /\ UNCHANGED <<conf, file, DB, op, res, calls, write_lock, gateB, load_ok,
                   last_exit, committed, entry_file, quiet, begun>>

\* release_write_lock: self.write_lock.release(); set_value / delete_value returns
release_write_lock_lock(a) ==
    /\ variant = "bounded" /\ pc[a] = "w_unlock"
    /\ write_lock' = 0
    /\ Return(a)
    /\ entry_file' = NoFile
    /\ UNCHANGED <<conf, file, DB, calls, semaphore, held, gateB>>

\* --------------------------------------------- event/mutex variant (winapi.py)
\* acquire_read_lock: WaitForSingleObject(self.write_mutex, -1)
acquire_read_lock_mutex(a) ==
    /\ variant = "event" /\ pc[a] = "r_acq"
    /\ write_mutex = 0
    /\ write_mutex' = a
    /\ pc' = [pc EXCEPT ![a] = "r_inc"]
    /\ UNCHANGED <<conf, file, DB, op, res, calls, gateA, reader_count, read_event,
                   counted, event_taker, load_ok, last_exit, committed, entry_file, quiet, begun>>

\* (mutant) the first reader does not wait for read_event
acquire_read_lock_count_nowait(a) ==
    /\ variant = "event" /\ pc[a] = "r_inc"
    /\ reader_count' = reader_count + 1
    /\ counted' = [counted EXCEPT ![a] = TRUE]
    /\ pc' = [pc EXCEPT ![a] = "r_mrel"]
    /\ UNCHANGED <<conf, file, DB, op, res, calls, gateA, write_mutex, read_event,
                   event_taker, load_ok, last_exit, committed, entry_file, quiet, begun>>

\* acquire_read_lock: self.reader_count += 1; if self.reader_count == 1: ...
acquire_read_lock_count(a) ==
    /\ variant = "event" /\ pc[a] = "r_inc"
    /\ reader_count' = reader_count + 1
    /\ counted' = [counted EXCEPT ![a] = TRUE]
    /\ pc' = [pc EXCEPT ![a] = IF reader_count + 1 = 1 THEN "r_ev" ELSE "r_mrel"]
    /\ UNCHANGED <<conf, file, DB, op, res, calls, gateA, write_mutex, read_event,
                   event_taker, load_ok, last_exit, committed, entry_file, quiet, begun>>

\* acquire_read_lock, first reader: WaitForSingleObject(self.read_event, -1)
acquire_read_lock_event(a) ==
    /\ variant = "event" /\ pc[a] = "r_ev"
    /\ read_event
    /\ read_event' = FALSE
    /\ event_taker' = -1
    /\ pc' = [pc EXCEPT ![a] = "r_mrel"]
    /\ UNCHANGED <<conf, file, DB, op, res, calls, gateA, reader_count, write_mutex,
                   counted, load_ok, last_exit, committed, entry_file, quiet, begun>>

\* acquire_read_lock: ReleaseMutex(self.write_mutex)
acquire_read_lock_unmutex(a) ==
    /\ variant = "event" /\ pc[a] = "r_mrel"
    /\ write_mutex' = 0
    /\ pc' = [pc EXCEPT ![a] = "r_load"]
    /\ UNCHANGED <<conf, file, DB, op, res, calls, gateA, reader_count, read_event,
                   counted, event_taker, load_ok, last_exit, committed, entry_file, quiet, begun>>

\* release_read_semaphore: WaitForSingleObject(self.write_mutex, -1)
release_read_semaphore_mutex(a) ==
    /\ variant = "event" /\ pc[a] = "r_rel"
    /\ write_mutex = 0
    /\ write_mutex' = a
    /\ pc' = [pc EXCEPT ![a] = "rr_dec"]
    /\ UNCHANGED <<conf, file, DB, op, res, calls, gateA, reader_count, read_event,
                   counted, event_taker, load_ok, last_exit, committed, entry_file, quiet, begun>>

\* (mutant) every reader's release signals read_event
release_read_semaphore_count_signals(a) ==
    /\ variant = "event" /\ pc[a] = "rr_dec"
    /\ reader_count' = reader_count - 1
    /\ counted' = [counted EXCEPT ![a] = FALSE]
    /\ read_event' = TRUE /\ event_taker' = 0
    /\ pc' = [pc EXCEPT ![a] = "rr_mrel"]
    /\ UNCHANGED <<conf, file, DB, op, res, calls, gateA, write_mutex, load_ok,
                   last_exit, committed, entry_file, quiet, begun>>

\* (mutant) only the last reader's release decrements reader_count
release_read_semaphore_count_last_only(a) ==
    /\ variant = "event" /\ pc[a] = "rr_dec"
    /\ reader_count' = IF reader_count = 1 THEN 0 ELSE reader_count
    /\ counted' = [counted EXCEPT ![a] = FALSE]
    /\ IF reader_count - 1 = 0
       THEN read_event' = TRUE /\ event_taker' = 0
       ELSE read_event' = read_event /\ event_taker' = event_taker
    /\ pc' = [pc EXCEPT ![a] = "rr_mrel"]
    /\ UNCHANGED <<conf, file, DB, op, res, calls, gateA, write_mutex, load_ok,
                   last_exit, committed, entry_file, quiet, begun>>

\* release_read_semaphore: self.reader_count -= 1; if 0: SetEvent(self.read_event)
release_read_semaphore_count(a) ==
    /\ variant = "event" /\ pc[a] = "rr_dec"
    /\ reader_count' = reader_count - 1
    /\ counted' = [counted EXCEPT ![a] = FALSE]
    /\ IF reader_count - 1 = 0
       THEN read_event' = TRUE /\ event_taker' = 0
       ELSE read_event' = read_event /\ event_taker' = event_taker
    /\ pc' = [pc EXCEPT ![a] = "rr_mrel"]
    /\ UNCHANGED <<conf, file, DB, op, res, calls, gateA, write_mutex, load_ok,
                   last_exit, committed, entry_file, quiet, begun>>

\* release_read_semaphore: ReleaseMutex(self.write_mutex); get_value returns
release_read_semaphore_unmutex(a) ==
    /\ variant = "event" /\ pc[a] = "rr_mrel"
    /\ write_mutex' = 0
    /\ Return(a)
    /\ UNCHANGED <<conf, file, DB, calls, gateA, reader_count, read_event, counted,
                   event_taker, entry_file>>

\* (mutant) the writer does not wait for read_event
acquire_write_lock_event_nowait(a) ==
    /\ variant = "event" /\ pc[a] = "w_acq"
    /\ read_event' = FALSE
    /\ event_taker' = a
    /\ pc' = [pc EXCEPT ![a] = "w_m"]
    /\ UNCHANGED <<conf, file, DB, op, res, calls, gateA, reader_count, write_mutex,
                   counted, load_ok, last_exit, committed, entry_file, quiet, begun>>

\* acquire_write_lock: WaitForSingleObject(self.read_event, -1)
acquire_write_lock_event(a) ==
    /\ variant = "event" /\ pc[a] = "w_acq"
    /\ read_event
    /\ read_event' = FALSE
    /\ event_taker' = a
    /\ pc' = [pc EXCEPT ![a] = "w_m"]
    /\ UNCHANGED <<conf, file, DB, op, res, calls, gateA, reader_count, write_mutex,
                   counted, load_ok, last_exit, committed, entry_file, quiet, begun>>

\* (mutant) the writer goes on without waiting for write_mutex
acquire_write_lock_mutex_nowait(a) ==
    /\ variant = "event" /\ pc[a] = "w_m"
    /\ write_mutex' = a
    /\ pc' = [pc EXCEPT ![a] = "w_load"]
    /\ entry_file' = file
    /\ UNCHANGED <<conf, file, DB, op, res, calls, gateA, reader_count, read_event,
                   counted, event_taker, load_ok, last_exit, committed, quiet, begun>>

\* acquire_write_lock: WaitForSingleObject(self.write_mutex, -1)
acquire_write_lock_mutex(a) ==
    /\ variant = "event" /\ pc[a] = "w_m"
    /\ write_mutex = 0
    /\ write_mutex' = a
    /\ pc' = [pc EXCEPT ![a] = "w_load"]
    /\ entry_file' = file
    /\ UNCHANGED <<conf, file, DB, op, res, calls, gateA, reader_count, read_event,
                   counted, event_taker, load_ok, last_exit, committed, quiet, begun>>

\* release_write_lock: ReleaseMutex(self.write_mutex)
release_write_lock_unmutex(a) ==
    /\ variant = "event" /\ pc[a] = "w_rel"
    /\ write_mutex' = 0
    /\ pc' = [pc EXCEPT ![a] = "w_set"]
    /\ UNCHANGED <<conf, file, DB, op, res, calls, gateA, reader_count, read_event,
                   counted, event_taker, load_ok, last_exit, committed, entry_file, quiet, begun>>

\* (mutant) release_write_lock returns without SetEvent(self.read_event)
release_write_lock_event_silent(a) ==
    /\ variant = "event" /\ pc[a] = "w_set"
    /\ read_event' = read_event
    /\ event_taker' = event_taker
    /\ Return(a)
    /\ entry_file' = NoFile
    /\ UNCHANGED <<conf, file, DB, calls, gateA, reader_count, write_mutex, counted>>

\* release_write_lock: SetEvent(self.read_event); set_value / del_value returns
release_write_lock_event(a) ==
    /\ variant = "event" /\ pc[a] = "w_set"
    /\ read_event' = TRUE
    /\ event_taker' = 0
    /\ Return(a)
    /\ entry_file' = NoFile
    /\ UNCHANGED <<conf, file, DB, calls, gateA, reader_count, write_mutex, counted>>

\* ------------------------------------------------------------ specification
\* the mappings a run starts from (the constructor's db, or an earlier run's file)
InitDicts == {EmptyDict, <<<<1, 10>>, <<2, 20>>>>}

Lookup(d) == [k \in Keys |-> DictGet(d, k)]

\* FileDatabase.__init__: self.DB = db, replaced by the file's content when the file
\* exists (sync_Database.py); winapi.py creates the file with {} and always loads it.
\* SynchronizedDatabase.__init__: the gate's primitives.
\* database.pickle after FileDatabase.__init__, d being its contents if it was there:
\* the bounded class leaves an absent file absent, the event class creates it
\* holding {}
ConstructedFile(v, ab, d) ==
    IF ~ab THEN FileOf(PickleDumps(d))
    ELSE IF v = "bounded" THEN NoFile ELSE FileOf(PickleDumps(EmptyDict))
\* self.DB after FileDatabase.__init__: the bounded class keeps the constructor's
\* mapping da unless the file exists and loads; the event class always loads
ConstructedDB(v, ab, d, da) ==
    IF ~ab THEN d
    ELSE IF v = "bounded" THEN da ELSE EmptyDict

InitWith(variants, modes, dicts, n) ==
    /\ variant \in variants
    /\ mode \in IF variant = "bounded" THEN modes ELSE {"thread"}
    /\ db_arg \in dicts
    /\ absent \in BOOLEAN
    \* a file that is there replaces (bounded) or pre-empts (event) the constructor's
    \* mapping, which no statement reads afterwards: it is taken equal to the file's
    /\ \E d \in (IF absent THEN dicts ELSE {db_arg}) :
         /\ file = ConstructedFile(variant, absent, d)
         /\ DB = [a \in Actors |-> ConstructedDB(variant, absent, d, db_arg)]
         /\ committed = Lookup(ConstructedDB(variant, absent, d, db_arg))
    /\ entry_file = NoFile
    /\ pc = [a \in Actors |-> "idle"]
    /\ op = [a \in Actors |-> NoOp]
    /\ res = [a \in Actors |-> NoResult]
    /\ calls = n
    /\ semaphore = MaxReaders
    /\ write_lock = 0
    /\ held = [a \in Actors |-> 0]
    /\ reader_count = 0
    /\ write_mutex = 0
    /\ read_event = TRUE
    /\ counted = [a \in Actors |-> FALSE]
    /\ event_taker = 0
    /\ load_ok = [a \in Actors |-> FALSE]
    /\ last_exit = "none"
    /\ quiet = [a \in Actors |-> FALSE]
    /\ begun = {}

\* one statement of a call of actor a outside the gate's own code, its arguments
\* drawn from ks and vs, and oks the outcomes of the file system (TRUE: the open,
\* read or write succeeds)
Calls(a, ks, vs, oks) ==
    \/ \E k \in ks : get_value(a, k)
    \/ \E k \in ks, v \in vs : set_value(a, k, v)
    \/ \E k \in ks : delete_value(a, k)
    \/ \E ok \in oks : load_from_file(a, ok)
    \/ db_get(a)
    \/ db_set(a)
    \/ db_del(a)
    \/ \E ok \in oks : save_to_file(a, ok)

\* one statement of the bounded gate
GateBounded(a) ==
    \/ acquire_read_lock_bounded(a)
    \/ release_read_semaphore_bounded(a)
    \/ acquire_write_lock_lock(a)
    \/ acquire_write_lock_unit(a)
    \/ release_write_lock_unit(a)
    \/ release_write_lock_lock(a)

\* one statement of the event/mutex gate
GateEvent(a) ==
    \/ acquire_read_lock_mutex(a)
    \/ acquire_read_lock_count(a)
    \/ acquire_read_lock_event(a)
    \/ acquire_read_lock_unmutex(a)
    \/ release_read_semaphore_mutex(a)
    \/ release_read_semaphore_count(a)
    \/ release_read_semaphore_unmutex(a)
    \/ acquire_write_lock_event(a)
    \/ acquire_write_lock_mutex(a)
    \/ release_write_lock_unmutex(a)
    \/ release_write_lock_event(a)

\* The store and its data: two actors, threads or processes, every argument, both
\* variants, a file system that may fail.
DataActors == {1, 2}
Init == InitWith({"bounded", "event"}, {"thread", "process"}, InitDicts, MaxDataCalls)
Next ==
    \E a \in DataActors :
        \/ Calls(a, KeyInputs, Vals, BOOLEAN)
        \/ GateBounded(a)
        \/ GateEvent(a)
Spec == Init /\ [][Next]_vars

\* The gates: every actor, threads of one process, a file system that works; the
\* arguments only select the path through the call (save or no save, return or
\* raise), which is all the gate can observe.
GateKeys == {1} \cup UnhashableKeys
GateVals == {10}
GateDicts == {<<<<1, 10>>>>}

InitBounded == InitWith({"bounded"}, {"thread"}, GateDicts, MaxCalls)
NextBounded == \E a \in Actors : Calls(a, GateKeys, GateVals, {TRUE}) \/ GateBounded(a)
SpecBounded == InitBounded /\ [][NextBounded]_vars

InitEvent == InitWith({"event"}, {"thread"}, GateDicts, MaxCalls)
NextEvent == \E a \in Actors : Calls(a, GateKeys, GateVals, {TRUE}) \/ GateEvent(a)
SpecEvent == InitEvent /\ [][NextEvent]_vars

\* the statements of a call in progress of actor a other than those of the gate
Runs(a) ==
    \/ load_from_file(a, TRUE)
    \/ db_get(a)
    \/ db_set(a)
    \/ db_del(a)
    \/ save_to_file(a, TRUE)

\* The bounded gate under a fair scheduler: a thread whose next statement can run
\* (is not blocked in an acquire) is eventually run.
SpecBoundedFair ==
    /\ InitBounded
    /\ [][NextBounded]_vars
    /\ \A a \in Actors : WF_vars(Runs(a) \/ GateBounded(a))

\* A trickle of readers against one writer of the bounded gate: a schedule of the
\* program in which actor 1 calls set_value once and the others call get_value
\* without end, the readers hold their calls back while the writer collects its
\* first max_readers - 1 units, and the scheduler never picks the writer at a
\* moment when the last unit is free.
TrickleWriters == {1}
TrickleReaders == Actors \ TrickleWriters
WriterCollecting ==
    \E w \in TrickleWriters :
        pc[w] = "w_acq" \/ (pc[w] = "w_sem" /\ held[w] < UnitsToDrain - 1)
TrickleWriter(w) ==
    \/ \E k \in GateKeys \cap Keys, v \in GateVals : set_value(w, k, v)
    \/ acquire_write_lock_lock(w)
    \/ acquire_write_lock_unit(w) /\ held[w] + 1 < UnitsToDrain
TrickleReader(r) ==
    \/ \E k \in GateKeys : get_value(r, k) /\ ~WriterCollecting
    \/ acquire_read_lock_bounded(r)
    \/ load_from_file(r, TRUE)
    \/ db_get(r)
    \/ release_read_semaphore_bounded(r)
InitTrickle == InitWith({"bounded"}, {"thread"}, GateDicts, -1)
NextTrickle ==
    \/ \E w \in TrickleWriters : TrickleWriter(w)
    \/ \E r \in TrickleReaders : TrickleReader(r)
SpecTrickle ==
    /\ InitTrickle
    /\ [][NextTrickle]_vars
    /\ \A w \in TrickleWriters : WF_vars(TrickleWriter(w))
    /\ \A r \in TrickleReaders : WF_vars(TrickleReader(r))

\* A stream of overlapping readers against one writer of the event gate: a schedule
\* of the program in which actor 1 calls set_value once, after a first reader has
\* consumed read_event, and the others call get_value without end, a reader being
\* run into release_read_semaphore only while another reader is counted as well.
StreamWriters == {1}
StreamReaders == Actors \ StreamWriters
StreamWriter(w) ==
    \E k \in GateKeys \cap Keys, v \in GateVals :
        set_value(w, k, v) /\ ~read_event /\ reader_count >= 1
StreamReader(r) ==
    \/ \E k \in GateKeys : get_value(r, k)
    \/ acquire_read_lock_mutex(r)
    \/ acquire_read_lock_count(r)
    \/ acquire_read_lock_event(r)
    \/ acquire_read_lock_unmutex(r)
    \/ load_from_file(r, TRUE)
    \/ db_get(r)
    \/ release_read_semaphore_mutex(r) /\ reader_count >= 2
    \/ release_read_semaphore_count(r)
    \/ release_read_semaphore_unmutex(r)
InitStream == InitWith({"event"}, {"thread"}, GateDicts, -1)
NextStream ==
    \/ \E w \in StreamWriters : StreamWriter(w)
    \/ \E r \in StreamReaders : StreamReader(r)
SpecStream ==
    /\ InitStream
    /\ [][NextStream]_vars
    /\ \A w \in StreamWriters : WF_vars(StreamWriter(w))
    /\ \A r \in StreamReaders :
          /\ WF_vars(StreamReader(r))
          /\ SF_vars(release_read_semaphore_mutex(r) /\ reader_count >= 2)

\* one statement of the inherited del_value
DelValue(a, ks, oks) ==
    \/ \E k \in ks : del_value(a, k)
    \/ \E ok \in oks : del_value_load(a, ok)
    \/ del_value_del(a)
    \/ \E ok \in oks : del_value_save(a, ok)
    \/ del_value_return(a)

\* Every public method of the bounded class: the three synchronized ones and the
\* inherited del_value; two actors, threads or processes, a file system that works.
InitPublic == InitWith({"bounded"}, {"thread", "process"}, InitDicts, MaxDataCalls)
NextPublic ==
    \E a \in DataActors :
        \/ Calls(a, KeyInputs, Vals, {TRUE})
        \/ GateBounded(a)
        \/ DelValue(a, KeyInputs, {TRUE})
SpecPublic == InitPublic /\ [][NextPublic]_vars

\* Both gates side by side, every actor, a file system that works.
InitGates == InitWith({"bounded", "event"}, {"thread"}, GateDicts, MaxCalls)
NextGates ==
    \E a \in Actors :
        \/ Calls(a, GateKeys, GateVals, {TRUE})
        \/ GateBounded(a)
        \/ GateEvent(a)
SpecGates == InitGates /\ [][NextGates]_vars

\* ------------------------------------------------------------------ claims
\* inside a write critical section: acquire_write_lock has returned and
\* release_write_lock has not executed its first statement
InWrite(a) == pc[a] \in {"w_load", "w_op", "w_save", "w_rel"}
\* inside a read critical section: acquire_read_lock has returned and
\* release_read_semaphore has not executed its first statement
InRead(a) == pc[a] \in {"r_load", "r_op", "r_rel"}
ReadersInside == {a \in Actors : InRead(a)}

WritersExclusive ==
    \A a \in Actors : InWrite(a) =>
        \A b \in Actors \ {a} : ~InWrite(b) /\ ~InRead(b)

\* C1: bounded variant: at most one actor is inside a write critical section, and
\* while one is, no actor is inside a read critical section (so acquire_write_lock
\* has not returned while a reader that acquired before it is still inside).
C1_MutualExclusionBounded == variant = "bounded" => WritersExclusive

\* a writer is inside while a reader and another writer wait at the gate
C1_Witness ==
    /\ variant = "bounded"
    /\ \E a, b, c \in Actors : InWrite(a) /\ pc[b] = "r_acq" /\ pc[c] = "w_acq"

\* C2: event/mutex variant: at most one actor is inside a write critical section,
\* and while one is, no actor is inside a read critical section.
C2_MutualExclusionEvent == variant = "event" => WritersExclusive

\* a writer is inside while a reader and another writer wait at the gate
C2_Witness ==
    /\ variant = "event"
    /\ \E a, b, c \in Actors : InWrite(a) /\ pc[b] = "r_acq" /\ pc[c] = "w_acq"

\* C3: bounded variant: at most max_readers actors are inside a read critical
\* section, and while max_readers are inside, the acquire_read_lock of a further
\* reader cannot return (it can only once one of them has released).
C3_BoundedReaders ==
    variant = "bounded" =>
        /\ Cardinality(ReadersInside) <= MaxReaders
        /\ Cardinality(ReadersInside) = MaxReaders =>
               \A b \in Actors : pc[b] = "r_acq" => ~ENABLED acquire_read_lock_bounded(b)

\* max_readers readers are inside and one more is waiting
C3_Witness ==
    /\ variant = "bounded"
    /\ Cardinality(ReadersInside) = MaxReaders
    /\ \E b \in Actors : pc[b] = "r_acq"

HoldsNothing(a) ==
    /\ held[a] = 0 /\ write_lock # a
    /\ write_mutex # a /\ ~counted[a] /\ event_taker # a

\* C4: once a get_value, set_value or delete_value has returned or raised, its
\* actor holds no semaphore unit, lock, mutex or signal of the gate: the release
\* ran on every exit path, the one of an exception included.
C4_ReleasedOnEveryExit == \A a \in Actors : pc[a] = "idle" => HoldsNothing(a)

\* a call has ended by raising, and nobody is in a call
C4_Witness == last_exit = "raise" /\ \A a \in Actors : pc[a] = "idle"

AllIdle == \A a \in Actors : pc[a] = "idle"

\* what a get of key k returns when it sees the effect of the last mutating call
\* that returned on k (or the initial entry, when there was none)
Expected(k) ==
    IF committed[k].kind = "set" THEN Result("value", committed[k].v)
    ELSE IF committed[k].kind = "deleted" THEN NotFound
    ELSE committed[k]

\* C5 (as stated): once every actor has completed, the snapshot holds for every key
\* the effect of the last mutating call that completed on it: absent after a delete,
\* the written value after a set, the initial entry when no call touched the key.
C5_SnapshotHoldsLastEffect ==
    (AllIdle /\ file.exists) =>
        \A k \in Keys : DictGet(Snapshot(file), k) = Expected(k)

C7_SnapshotEqualsStoreAfterWrite ==
    \A a \in Actors :
        (pc[a] = "w_rel" /\ res[a] = RetTrue) => Snapshot(file) = DB[a]

\* C8 (as stated, and only for the gets whose own reload succeeded): a get of k,
\* called after a set(k, v) returned true and with no set or delete of k since,
\* returns v, whichever actor calls it; and a get of a key the snapshot does not
\* hold returns the not-found value, as a result.
C8_RoundTrip ==
    \A a \in Actors :
        (pc[a] = "r_rel" /\ op[a].key \in Keys /\ load_ok[a]) =>
            /\ (quiet[a] /\ committed[op[a].key].kind = "set") =>
                   res[a] = Result("value", committed[op[a].key].v)
            /\ ~DictHas(Snapshot(file), op[a].key) => res[a] = NotFound

\* C9: a delete of a key the mapping does not hold after the reload returns false,
\* never reaches save_to_file, and leaves the file as it was when the call entered
\* the gate, up to the call's return.
C9_DeleteAbsentKeepsSnapshot ==
    \A a \in Actors :
        /\ (pc[a] = "w_op" /\ op[a].name = "del" /\ op[a].key \in Keys
               /\ ~DictHas(DB[a], op[a].key)) => DelResult(DB[a], op[a].key) = RetFalse
        /\ pc[a] = "w_save" => res[a] = RetTrue
        /\ (op[a].name = "del" /\ res[a] = RetFalse
               /\ pc[a] \in {"w_rel", "w_rel2", "w_unlock", "w_set"}) => file = entry_file

\* a delete has returned false on a file that holds another key
C9_Witness ==
    \E a \in Actors :
        /\ pc[a] = "w_rel" /\ op[a].name = "del" /\ res[a] = RetFalse
        /\ file.exists /\ Snapshot(file) # EmptyDict

\* C10 (as stated, and only for the second deletes whose own reload succeeded): a
\* delete of a key whose last completed mutating call was a delete returns false
\* and leaves the snapshot as the first delete left it.
C10_IdempotentDelete ==
    \A a \in Actors :
        (pc[a] = "w_rel" /\ op[a].name = "del" /\ op[a].key \in Keys /\ load_ok[a]
            /\ committed[op[a].key].kind = "deleted") =>
                res[a] = RetFalse /\ file = entry_file

\* the actor holds the gate for reading / for writing
HoldsReadGate(a) ==
    IF variant = "bounded" THEN held[a] = 1
    ELSE counted[a] /\ event_taker = -1
HoldsWriteGate(a) ==
    IF variant = "bounded" THEN write_lock = a /\ held[a] = MaxReaders
    ELSE write_mutex = a /\ event_taker = a

\* the positions a call may come from when it reaches a position
ComesFrom(to) ==
    CASE to = "r_load" -> {"r_acq", "r_mrel"}
      [] to = "r_op" -> {"r_load"}
      [] to = "r_rel" -> {"r_op"}
      [] to = "w_load" -> {"w_sem", "w_m"}
      [] to = "w_op" -> {"w_load"}
      [] to = "w_save" -> {"w_op"}
      [] to = "w_rel" -> {"w_op", "w_save"}
      [] to = "idle" -> {"r_rel", "rr_mrel", "w_unlock", "w_set"}
      [] OTHER -> {"idle", "r_acq", "r_inc", "r_ev", "r_rel", "rr_dec", "w_acq", "w_sem",
                   "w_m", "w_rel", "w_rel2"}

\* C11: in every get/set/delete the steps come in the order acquire, reload,
\* operation, save, release; the save follows only a set or delete whose operation
\* returned true; the reload and the operation of a get run with the gate held for
\* reading, those of a set or delete and the save with the gate held for writing;
\* the file changes in no other step than such a save.
C11_StepOrderUnderGate ==
    /\ [](\A a \in Actors :
            /\ pc[a] \in {"r_load", "r_op"} => HoldsReadGate(a) /\ op[a].name = "get"
            /\ pc[a] \in {"w_load", "w_op", "w_save"} =>
                   HoldsWriteGate(a) /\ IsWrite(op[a].name)
            /\ pc[a] = "w_save" => res[a] = RetTrue)
    /\ [][/\ \A a \in Actors : pc'[a] # pc[a] => pc[a] \in ComesFrom(pc'[a])
          /\ file' # file => \E a \in Actors : pc[a] = "w_save" /\ pc'[a] = "w_rel"
          /\ \A a \in Actors : load_ok'[a] /\ ~load_ok[a] => pc[a] \in {"r_load", "w_load"}
         ]_vars

\* a set is about to save while a get and a delete wait at the gate
C11_Witness ==
    \E a, b \in Actors :
        /\ pc[a] = "w_save" /\ op[a].name = "set"
        /\ pc[b] \in {"r_acq", "w_acq"}

\* actor a takes the step that leaves position p
Leaves(a, p) == pc[a] = p /\ pc'[a] # p

C13_WriterExcludesReaderCount ==
    variant = "event" =>
        \A a \in Actors : InWrite(a) =>
            /\ reader_count = 0
            /\ write_mutex = a
            /\ \A b \in Actors :
                  /\ ~ENABLED acquire_read_lock_mutex(b)
                  /\ ~ENABLED acquire_read_lock_count(b)

\* a writer is inside while a reader has called acquire_read_lock
C13_Witness ==
    /\ variant = "event"
    /\ \E a, b \in Actors :
          /\ pc[a] = "w_op" /\ pc[b] = "r_acq"
          /\ \E c \in Actors \ {a, b} : pc[c] = "r_acq"

\* event variant: the actors between the increment of acquire_read_lock and the
\* decrement of release_read_semaphore
ReadersIncremented ==
    {a \in Actors : pc[a] \in {"r_ev", "r_mrel", "r_load", "r_op", "r_rel", "rr_dec"}}
\* a reader is inside acquire_read_lock or release_read_semaphore with write_mutex
ReaderHoldsMutex ==
    write_mutex \in Actors /\ pc[write_mutex] \in {"r_inc", "r_ev", "r_mrel", "rr_dec", "rr_mrel"}

\* C14 as stated: event variant: reader_count is non-negative and equals the number
\* of readers currently inside the read critical section, in every reachable state.
C14_ReaderCountEqualsInside ==
    variant = "event" =>
        reader_count >= 0 /\ reader_count = Cardinality(ReadersInside)

\* C14 (amended): event variant: reader_count is non-negative and equals the number
\* of readers that have incremented it and not yet decremented it; every reader
\* inside is among them, and whenever no reader holds write_mutex reader_count
\* equals the number of readers inside.
C14_ReaderCountEqualsIncremented ==
    variant = "event" =>
        /\ reader_count >= 0
        /\ reader_count = Cardinality(ReadersIncremented)
        /\ ReadersIncremented = {a \in Actors : counted[a]}
        /\ ~ReaderHoldsMutex => reader_count = Cardinality(ReadersInside)

\* one reader is inside and a second one has incremented reader_count but is still
\* in acquire_read_lock
C14_Witness ==
    /\ variant = "event" /\ reader_count = 2
    /\ \E a, b \in Actors : pc[a] = "r_op" /\ pc[b] = "r_mrel"

\* the statement with which acquire_read_lock returns to actor b
AcquireReadReturns(b) ==
    \/ acquire_read_lock_bounded(b)
    \/ acquire_read_lock_unmutex(b)
\* the statement with which acquire_write_lock returns to actor b
AcquireWriteReturns(b) ==
    \/ acquire_write_lock_unit(b) /\ pc'[b] = "w_load"
    \/ acquire_write_lock_mutex(b)

\* C15 as stated: both variants: while an actor is inside a write or a read critical
\* section (and so for ever, if it never releases), no other actor's acquire_read_lock
\* or acquire_write_lock can return.
C15_AnyHolderStallsAll ==
    \A a \in Actors : InWrite(a) \/ InRead(a) =>
        \A b \in Actors \ {a} :
            ~ENABLED AcquireReadReturns(b) /\ ~ENABLED AcquireWriteReturns(b)

\* C15 (amended): both variants: while an actor is inside a write critical section no
\* other actor's acquire_read_lock or acquire_write_lock can return; while an actor is
\* inside a read critical section no other actor's acquire_write_lock can return.
\* Only the holder's own steps take it out of the section, so a holder that never
\* releases stalls those actors for ever.
C15_HolderStalls ==
    /\ \A a \in Actors : InWrite(a) =>
          \A b \in Actors \ {a} :
              ~ENABLED AcquireReadReturns(b) /\ ~ENABLED AcquireWriteReturns(b)
    /\ \A a \in Actors : InRead(a) =>
          \A b \in Actors \ {a} : ~ENABLED AcquireWriteReturns(b)

\* a reader is inside, a second reader has just been let in beside it, and a writer
\* is waiting inside acquire_write_lock
C15_Witness ==
    \E a, b, c \in Actors :
        /\ pc[a] = "r_op" /\ pc[b] = "r_load"
        /\ pc[c] \in {"w_sem", "w_acq"}
        /\ IF variant = "bounded" THEN write_lock = c ELSE ~read_event

\* C20: event variant: in no reachable state is a reader waiting on read_event while
\* it holds write_mutex at the same time as a writer that has consumed read_event
\* is waiting on write_mutex.
C20_NoEventDeadlock ==
    variant = "event" =>
        ~(\E r, w \in Actors :
             /\ pc[r] = "r_ev" /\ write_mutex = r /\ ~read_event
             /\ pc[w] = "w_m" /\ event_taker = w)

\* no set has been called with a key it can store
NoSetYet == "set" \notin begun
\* no delete has been called with a key it can look up
NoDeleteYet == "del" \notin begun
\* actor a's get of a hashable key has its result and has yet to release
GetAnswered(a) == pc[a] = "r_rel" /\ op[a].name = "get" /\ op[a].key \in Keys

\* C18 as stated: with database.pickle absent at construction, a get of any key
\* before any set returns not-found, whatever mapping the constructor was given.
C18_AbsentTargetReadsEmpty ==
    \A a \in Actors : absent /\ NoSetYet /\ GetAnswered(a) => res[a] = NotFound

\* C18 (amended): with database.pickle absent at construction, a get of any key
\* before any set returns not-found in the event variant, whatever mapping the
\* constructor was given; in the bounded variant the file stays absent and a get
\* before any set or delete returns the entry of the constructor's mapping.
C18_AbsentTargetByVariant ==
    \A a \in Actors :
        /\ (variant = "event" /\ absent /\ NoSetYet /\ GetAnswered(a)) =>
               res[a] = NotFound
        /\ (variant = "bounded" /\ absent /\ NoSetYet /\ NoDeleteYet) =>
               /\ ~file.exists
               /\ pc[a] \in {"r_op", "r_rel"} => ~load_ok[a]
               /\ GetAnswered(a) => res[a] = DictGet(db_arg, op[a].key)

\* bounded variant, file absent, nothing written yet: a get has returned a value of
\* the constructor's mapping
C18_Witness ==
    \E a \in Actors :
        /\ variant = "bounded" /\ absent /\ NoSetYet /\ NoDeleteYet
        /\ GetAnswered(a) /\ res[a].kind = "value"
        /\ db_arg # EmptyDict

\* event variant, file absent at construction, constructor given a mapping with
\* entries: a get has returned not-found
C18_WitnessEvent ==
    \E a \in Actors :
        /\ variant = "event" /\ absent /\ NoSetYet
        /\ GetAnswered(a) /\ res[a] = NotFound /\ db_arg # EmptyDict

\* C19: bounded variant, finite workload, fair scheduling: whenever some call is in
\* progress some actor's next statement can run (no deadlock), and every call that
\* is in progress eventually returns.
C19_BoundedCallsReturn ==
    /\ []((\E a \in Actors : pc[a] # "idle") =>
            \E a \in Actors : ENABLED (Runs(a) \/ GateBounded(a)))
    /\ \A a \in Actors : (pc[a] # "idle") ~> (pc[a] = "idle")

\* a writer holds write_lock and one unit and waits for the unit of a reader that is
\* inside, while a second writer waits for write_lock
C19_Witness ==
    \E a, b, c \in Actors :
        /\ pc[a] = "w_sem" /\ held[a] = MaxReaders - 1 /\ semaphore = 0
        /\ pc[b] = "r_op"
        /\ pc[c] = "w_acq"

\* C16: bounded variant: the trickle schedule is an execution of the program that is
\* weakly fair to every thread's next statement, in which every reader that enters
\* leaves, readers enter again and again, and the writer ends up waiting for ever in
\* acquire_write_lock with max_readers - 1 units in hand.
C16_TrickleStarvesWriter ==
    /\ [][NextBounded]_vars
    /\ \A a \in Actors : WF_vars(Runs(a) \/ GateBounded(a))
    /\ \A r \in TrickleReaders : InRead(r) ~> (pc[r] = "idle")
    /\ []<>(\E r \in TrickleReaders : pc[r] = "r_load")
    /\ <>[](\E w \in TrickleWriters :
               pc[w] = "w_sem" /\ held[w] = UnitsToDrain - 1 /\ held[w] < MaxReaders)

\* the writer holds write_lock and all units but one, the last unit is free, and a
\* reader is about to take it
C16_Witness ==
    \E w \in TrickleWriters, r \in TrickleReaders :
        /\ pc[w] = "w_sem" /\ held[w] = UnitsToDrain - 1
        /\ semaphore = 1 /\ pc[r] = "r_acq"
        /\ last_exit # "none"

\* C17: event variant: the stream schedule is an execution of the program that is
\* weakly fair to every thread's next statement (strongly fair to the writer's), in
\* which every reader that enters leaves, readers enter again and again,
\* reader_count never returns to 0 once a
\* reader has consumed read_event, read_event is never signalled again, and the
\* writer ends up waiting for ever on read_event in acquire_write_lock.
C17_StreamStarvesWriter ==
    /\ [][NextEvent]_vars
    /\ \A a \in Actors : WF_vars(Runs(a) \/ GateEvent(a))
    /\ \A w \in StreamWriters : SF_vars(Runs(w) \/ GateEvent(w))
    /\ \A r \in StreamReaders : InRead(r) ~> (pc[r] = "idle")
    /\ []<>(\E r \in StreamReaders : pc[r] = "r_load")
    /\ [](~read_event => [](~read_event /\ reader_count >= 1))
    /\ <>[](\E w \in StreamWriters : pc[w] = "w_acq" /\ ~read_event)

\* the writer waits on read_event while one reader is about to release and a second
\* one is already counted
C17_Witness ==
    \E w \in StreamWriters, r1, r2 \in StreamReaders :
        /\ pc[w] = "w_acq" /\ ~read_event
        /\ reader_count = 2
        /\ pc[r1] = "r_rel" /\ pc[r2] = "r_op"
        /\ last_exit # "none"

\* the units of self.semaphore that the actors of S hold together
RECURSIVE UnitsHeld(_)
UnitsHeld(S) ==
    IF S = {} THEN 0
    ELSE LET a == CHOOSE x \in S : TRUE IN held[a] + UnitsHeld(S \ {a})

\* C23: bounded variant: free units plus the units held by readers and by the writer
\* equal max_readers; the free count stays within 0..max_readers; a reader inside or
\* about to release holds exactly one unit, an actor outside the gate none; only the
\* holder of write_lock holds more than one unit; with no call in progress all units
\* are free and write_lock is unlocked.
C23_UnitConservation ==
    variant = "bounded" =>
        /\ semaphore + UnitsHeld(Actors) = MaxReaders
        /\ semaphore \in 0..MaxReaders
        /\ \A a \in Actors :
              /\ InRead(a) => held[a] = 1
              /\ pc[a] \in {"idle", "r_acq", "w_acq", "w_unlock"} => held[a] = 0
              /\ InWrite(a) => held[a] = MaxReaders
              /\ held[a] > 1 => write_lock = a
              /\ held[a] \in 0..MaxReaders
        /\ AllIdle => semaphore = MaxReaders /\ write_lock = 0

\* a writer is half way through giving its units back and still holds write_lock
\* while a reader has already taken the first unit returned
C23_Witness ==
    \E a, b \in Actors :
        /\ variant = "bounded"
        /\ pc[a] = "w_rel2" /\ write_lock = a /\ held[a] = MaxReaders - 1
        /\ pc[b] = "r_load" /\ semaphore = 0

\* C24: event variant: whenever no call is in progress reader_count is 0, read_event
\* is signalled and write_mutex is unowned; and read_event is never signalled while
\* a reader or a writer is inside its critical section.
C24_ReturnsToFree ==
    variant = "event" =>
        /\ AllIdle => reader_count = 0 /\ read_event /\ write_mutex = 0
        /\ \A a \in Actors : InRead(a) \/ InWrite(a) => ~read_event

\* every call of a workload with readers and writers has returned
C24_Witness ==
    /\ variant = "event" /\ AllIdle /\ calls = 0
    /\ "set" \in begun /\ last_exit = "return"
    /\ read_event /\ reader_count = 0

\* the statement of actor a that writes database.pickle, when it changes the file
ChangesSnapshot(a) ==
    /\ save_to_file(a, TRUE) \/ del_value_save(a, TRUE)
    /\ file' # file

\* C22: no set or delete method callable on the store can change the snapshot
\* while another actor is inside a read or write critical section.
C22_NoChangeWhileOthersInside ==
    \A a \in Actors : ENABLED ChangesSnapshot(a) =>
        \A b \in Actors \ {a} : ~InRead(b) /\ ~InWrite(b)

\* the mappings d and e give every key other than k the same entry
AgreeOffKey(d, e, k) == \A j \in Keys \ {k} : DictGet(d, j) = DictGet(e, j)
\* actor a is in a gated set or delete of a hashable key whose reload succeeded
GatedWrite(a) == IsWrite(op[a].name) /\ op[a].key \in Keys /\ load_ok[a]

====
